---- MODULE Spec2Model ----
(***************************************************************************)
(* Model of the Basalt task scheduler                                      *)
(* (src/src/pylaborate/basalt/__main__.py): dependency expansion in        *)
(* Basalt.main, the launch map, the task proxies with their run futures,   *)
(* the worker threads of the executor, the asyncio activities of amain,    *)
(* the exception map and the value returned by main.                       *)
(***************************************************************************)
EXTENDS Integers, Sequences, FiniteSets, TLC

\* ---------------------------------------------------------------- bounds
MaxNeeds == 2
MaxRequested == 2
MaxJobs == 2
MaxSignals == 1
MaxRecordings == 3
MaxParams == 2
MaxCalls == 4

\* ---------------------------------------------------------------- names
Tasks == {"build", "test", "package", "deploy"}
\* the tasks over which every dependency graph is enumerated
ExpandTasks == {"build", "test", "package"}
NoTask == "None"

VARIABLES
    needs,          \* task name -> sequence of task names (Task.needs)
    to_sched,       \* the tasks requested on the command line, in order
    kind,           \* task name -> "sync" | "async" (shape of Task.func)
    raises,         \* the tasks whose body raises
    body_args,      \* the args of the error a body raises
    max_workers,    \* -j / --max-workers
    continue_opt,   \* -k / --continue
    dry_run,        \* -n / --dry-run
    argspec,        \* [funcargs, nr_defaults] of a task function, with what
                    \* the environment holds for each parameter
    use_args,       \* get_kwargs: [pc, use], the rule that gave each argument
    tlm,            \* a TaskLaunchMap object
    tlm_ret,        \* the last call on tlm: [op, ret, n], n the number of calls
    call_in,        \* call_sync: [context, callback, future], its arguments
    call_st,        \* call_sync: the state of one call and of its future
    demap,          \* Demap._storage, a deque of entries [key, keyhash, value]
    refmap,         \* a dict given the same operations as demap
    demap_ret,      \* the last operation: [op, key, ret, ref], ret what Demap
                    \* gave and ref what the dict gave
    push_st,        \* push_exception_info called on two threads: [thr, heap,
                    \* ref], thr the position, arguments and local emap of
                    \* each thread, heap the dicts created, ref the dict
                    \* Basalt._exceptions refers to (0 for None)
    mainPc,         \* position of Basalt.main
    to_call,        \* main: the complete build list
    deps_map,       \* main: target name -> names yielded for it
    rdeps_map,      \* main: yielded name -> targets it was yielded for
    build_order,    \* TaskLaunchMap.build_order (names of the proxies)
    sig_handler,    \* the handler of each signal of main
    finalized,      \* TaskLaunchMap.finalized
    depends,        \* proxy -> TaskProxyBase.depends
    rdepends,       \* proxy -> TaskProxyBase.rdepends
    exit_future,    \* RunContext.exit_future: [state, exc]
    exceptions,     \* Basalt._exceptions, in insertion order
    pushed,         \* the arguments of every call of push_exception_info
    mainReturn,     \* what main returned: [kind, val]
    stderr,         \* the error lines main has written
    amainPc,        \* position of Basalt.amain
    harvestIdx,     \* amain: index into task_data in the finalizing loop
    run_future,     \* proxy -> [state, exc]
    aio_task,       \* proxy -> [pc, outcome, must_cancel] of its asyncio task
    hdl,            \* proxy -> [pc, exc]: the call submitted to the executor
    bodyRuns,       \* proxy -> number of times the task function was entered
    semValue,       \* workers_semaphore: free slots
    semWaiters,     \* workers_semaphore: waiting activities, oldest first
    signals         \* number of signals delivered

vars == << needs, to_sched, kind, raises, body_args, max_workers, continue_opt, dry_run,
           argspec, use_args, tlm, tlm_ret, call_in, call_st, sig_handler,
           demap, refmap, demap_ret, push_st,
           mainPc, to_call, deps_map, rdeps_map, build_order, finalized,
           depends, rdepends, exit_future, exceptions, pushed, mainReturn, stderr, amainPc,
           harvestIdx, run_future, aio_task, hdl, bodyRuns, semValue,
           semWaiters, signals >>

inputVars == << needs, to_sched, kind, raises, body_args, max_workers, continue_opt,
               dry_run, argspec, call_in >>
\* what only the operations called on their own change
demapVars == << demap, refmap, demap_ret >>
callVars == << use_args, tlm, tlm_ret, call_st, demapVars, push_st >>
sigVars == << sig_handler >>
expandVars == << to_call, deps_map, rdeps_map >>
mapVars == << build_order, finalized, depends, rdepends >>
runVars == << amainPc, harvestIdx, run_future, aio_task, hdl, bodyRuns,
              semValue, semWaiters, signals >>

\* ---------------------------------------------------------------- helpers
InSeq(x, s) == \E i \in 1..Len(s) : s[i] = x

Range(s) == { s[i] : i \in 1..Len(s) }

IndexOf(x, s) == CHOOSE i \in 1..Len(s) : s[i] = x

AppendNew(s, x) == IF InSeq(x, s) THEN s ELSE Append(s, x)

\* sequences over S without repetition, of length at most n
DistinctSeqs(S, n) ==
    UNION { { s \in [1..m -> S] : \A i, j \in 1..m : i # j => s[i] # s[j] }
            : m \in 0..n }

\* ------------------------------------------------- dependency expansion
NoCycleCheck(dep, task) == FALSE

\* the test of the generator for a dependency that is the requested task
IsCycle(dep, task) == dep = task

RECURSIVE VisitNeeds(_, _, _, _)
RECURSIVE VisitNeedsPreorder(_, _, _, _)

\* the recursive call get_dependency_order(task, state, cur)
Enter(task, cur, acc) ==
    IF InSeq(cur, acc.state)
    THEN acc
    ELSE VisitNeeds(task, cur, 1, [acc EXCEPT !.state = Append(@, cur)])

EnterPreorder(task, cur, acc) ==
    IF InSeq(cur, acc.state)
    THEN acc
    ELSE VisitNeedsPreorder(task, cur, 1, [acc EXCEPT !.state = Append(@, cur)])

\* the loop "for dep in needs" of the generator, from the i-th need of cur;
\* acc = [out: names yielded so far, state: the shared list, err: raised]
VisitNeeds(task, cur, i, acc) ==
    IF acc.err \/ i > Len(needs[cur])
    THEN acc
    ELSE LET dep == needs[cur][i] IN
         IF IsCycle(dep, task)
         THEN [acc EXCEPT !.err = TRUE]
         ELSE IF ~InSeq(dep, acc.state)
         THEN LET sub == Enter(task, dep, acc) IN
              IF sub.err
              THEN sub
              ELSE VisitNeeds(task, cur, i + 1,
                              [out |-> Append(sub.out, dep),
                               state |-> Append(sub.state, dep),
                               err |-> FALSE])
         ELSE VisitNeeds(task, cur, i + 1, acc)

VisitNeedsPreorder(task, cur, i, acc) ==
    IF acc.err \/ i > Len(needs[cur])
    THEN acc
    ELSE LET dep == needs[cur][i] IN
         IF IsCycle(dep, task)
         THEN [acc EXCEPT !.err = TRUE]
         ELSE IF ~InSeq(dep, acc.state)
         THEN LET sub == EnterPreorder(task, dep, [acc EXCEPT !.out = Append(@, dep)]) IN
              IF sub.err
              THEN sub
              ELSE VisitNeedsPreorder(task, cur, i + 1,
                              [out |-> sub.out,
                               state |-> Append(sub.state, dep),
                               err |-> FALSE])
         ELSE VisitNeedsPreorder(task, cur, i + 1, acc)

get_dependency_order_preorder(task) ==
    VisitNeedsPreorder(task, task, 1, [out |-> <<>>, state |-> <<>>, err |-> FALSE])

\* get_dependency_order(task): the names the generator yields, and whether
\* it raised CircularDependency
get_dependency_order(task) ==
    VisitNeeds(task, task, 1, [out |-> <<>>, state |-> <<>>, err |-> FALSE])

RECURSIVE RecordYields(_, _, _, _)
\* main, the body of "for ordered_task in self.get_dependency_order(to_task)"
RecordYields(out, i, to_name, st) ==
    IF i > Len(out)
    THEN st
    ELSE RecordYields(out, i + 1, to_name,
            [st EXCEPT !.rdeps_map[out[i]] = Append(@, to_name),
                       !.to_call = AppendNew(@, out[i])])

RECURSIVE ExpandFrom(_, _)
\* main, the loop "for to_task in to_sched"
ExpandFrom(i, st) ==
    IF i > Len(to_sched)
    THEN st
    ELSE LET to_name == to_sched[i]
             r == get_dependency_order(to_name)
             st1 == RecordYields(r.out, 1, to_name, st)
         IN IF r.err
            THEN [st1 EXCEPT !.err = TRUE, !.errTask = to_name]
            ELSE ExpandFrom(i + 1,
                    [st1 EXCEPT !.to_call = AppendNew(@, to_name),
                                !.deps_map[to_name] = r.out])

ExpandResult ==
    ExpandFrom(1, [to_call |-> <<>>,
                   deps_map |-> [t \in Tasks |-> <<>>],
                   rdeps_map |-> [t \in Tasks |-> <<>>],
                   err |-> FALSE, errTask |-> NoTask])

\* ---------------------------------------------------------------- futures
Pending == [state |-> "Pending", exc |-> "none", val |-> 0]
Failed(e) == [state |-> "Failed", exc |-> e, val |-> 0]
Cancelled == [state |-> "Cancelled", exc |-> "none", val |-> 0]
Finished(v) == [state |-> "Done", exc |-> "none", val |-> v]

\* Future.done()
done(f) == f.state # "Pending"

\* Future.cancelled()
cancelled(f) == f.state = "Cancelled"

\* Future.cancel(): only a pending future becomes cancelled
cancel_future(f) == IF f.state = "Pending" THEN Cancelled ELSE f

\* ---------------------------------------------------------- exception map
\* hash(): the same for the argument tuples (-1,) and (-2,), since
\* hash(-1) = hash(-2) = -2, and different for the other values used here
py_hash(v) == IF v = "(-1,)" THEN "(-2,)" ELSE v

\* hash() raises TypeError for args that hold a list
Hashable(eargs) == eargs # "([..],)"

\* push_exception_info, token = hash((task, exc_type, exc_args,))
token(task, etype, eargs) == << py_hash(task), py_hash(etype), py_hash(eargs) >>

\* push_exception_info: the entry is stored under its token unless the
\* token is already a key of the map
push_exception_info(emap, task, etype, eargs, tbk) ==
    IF \E i \in 1..Len(emap) :
          token(emap[i].task, emap[i].etype, emap[i].eargs) = token(task, etype, eargs)
    THEN emap
    ELSE Append(emap, [task |-> task, etype |-> etype, eargs |-> eargs, tbk |-> tbk])

\* a call of push_exception_info as it was made
Call(task, etype, eargs, tbk) ==
    [task |-> task, etype |-> etype, eargs |-> eargs, tbk |-> tbk]

\* the threads push_exception_info is called on: an executor thread
\* (callback, through defer_exception) and the thread of the loop
\* (launch_task and amain)
Threads == {"worker", "loop"}

\* no call of push_exception_info in progress, Basalt._exceptions is None
NoPush ==
    [thr |-> [t \in Threads |-> [pc |-> "idle", call |-> Call(NoTask, "none", "none", "None"),
                                 emap |-> 0]],
     heap |-> <<>>, ref |-> 0]

\* Basalt._exceptions as the sequence of its entries, None read as empty
ledger_of(ps) == IF ps.ref = 0 THEN <<>> ELSE ps.heap[ps.ref]

\* ------------------------------------------------------------ get_kwargs
\* a task function without parameters
NoArgs == [funcargs |-> <<>>, nr_defaults |-> 0]

\* a parameter: its name, whether environment.options.<task> has it and
\* whether it is an attribute of the environment
ParamNames == {"x", "env", "sh", "future"}
Params == [name : ParamNames, in_opts : BOOLEAN, in_env : BOOLEAN]

\* get_kwargs: first_default, None when there are no defaults; the
\* parameters are counted from 0
first_default(spec) ==
    IF spec.nr_defaults > 0 THEN Len(spec.funcargs) - spec.nr_defaults ELSE -1

\* the condition "first_default and n >= first_default" for the parameter
\* at index n (from 0): None and 0 are both false
DefaultRule(spec, n) ==
    first_default(spec) # -1 /\ first_default(spec) # 0 /\ n >= first_default(spec)

\* get_kwargs: the branch taken for the parameter at index n
ArgRule(spec, n) ==
    LET arg == spec.funcargs[n + 1] IN
    IF arg.in_opts THEN "opts"
    ELSE IF arg.in_env THEN "env"
    ELSE IF DefaultRule(spec, n) THEN "default"
    ELSE IF arg.name \in {"env", "sh", "future"} THEN "reserved"
    ELSE "PavementError"

RECURSIVE get_kwargs(_, _, _)
\* get_kwargs: the loop over funcargs from index n, with the arguments
\* collected so far
get_kwargs(spec, n, use) ==
    IF n >= Len(spec.funcargs)
    THEN [pc |-> "returned", use |-> use]
    ELSE IF ArgRule(spec, n) = "PavementError"
    THEN [pc |-> "raised", use |-> use]
    ELSE get_kwargs(spec, n + 1, Append(use, ArgRule(spec, n)))

\* TaskLaunchMap.__init__; frozen stands for the types given to build_order
\* and launch_map by finalize (tuple and MappingProxyType)
NewLaunchMap == [build_order |-> <<>>, launch_map |-> {}, finalized |-> FALSE,
                 frozen |-> FALSE, err |-> FALSE]

\* ----------------------------------------------------------------- Demap
\* string keys; key_x is a string with the hash of key_0
DemapKeys == {"key_0", "key_1", "key_x"}
DemapValues == {"v1", "v2"}
Absent == "absent"

\* hash() of a string key, as kept in DemapEntry.keyhash
key_hash(k) == IF k \in {"key_0", "key_x"} THEN "h0" ELSE "h1"

\* Demap.yield_for and yield_indexed_for: the index (from 1) of the first
\* entry whose keyhash is hash(key), 0 when there is none
yield_for(q, key) ==
    LET found == { n \in 1..Len(q) : q[n].keyhash = key_hash(key) }
    IN IF found = {} THEN 0 ELSE CHOOSE n \in found : \A m \in found : n <= m

\* Demap.__contains__
demap_contains(q, key) == yield_for(q, key) # 0

\* Demap.__getitem__, with __missing__
demap_getitem(q, key) ==
    IF yield_for(q, key) = 0 THEN "KeyError" ELSE q[yield_for(q, key)].value

\* Demap.get with the default None
demap_get(q, key) ==
    IF demap_getitem(q, key) = "KeyError" THEN "None" ELSE demap_getitem(q, key)

\* Demap.__setitem__
demap_setitem(q, key, value) ==
    IF yield_for(q, key) = 0
    THEN << [key |-> key, keyhash |-> key_hash(key), value |-> value] >> \o q
    ELSE [q EXCEPT ![yield_for(q, key)].value = value]

\* Demap.__delitem__; the deque is left as it is when KeyError is raised
demap_delitem(q, key) ==
    LET index == yield_for(q, key) IN
    IF index = 0 THEN q
    ELSE [n \in 1..(Len(q) - 1) |-> IF n < index THEN q[n] ELSE q[n + 1]]

\* the same operations on a dict
ref_contains(d, key) == d[key] # Absent
ref_getitem(d, key) == IF d[key] = Absent THEN "KeyError" ELSE d[key]
ref_get(d, key) == IF d[key] = Absent THEN "None" ELSE d[key]
ref_setitem(d, key, value) == [d EXCEPT ![key] = value]
ref_delitem(d, key) == [d EXCEPT ![key] = Absent]

\* ------------------------------------------------------------- call_sync
\* the context managers of the module and a lock used as the context
Contexts == {"identity_context", "lock", "lock_context"}

\* the callback returns, raises an Exception, raises StopIteration, or
\* raises a BaseException that is no Exception
Callbacks == {"returns", "raises", "raises_stop", "raises_base"}

\* no call of call_sync
NoCall == [context |-> "identity_context", callback |-> "returns", future |-> Pending]

\* the state before call_sync is called: the lock of the future is free,
\* the callback was not called, the future was not touched after the test
NewCall(f) == [pc |-> "start", future |-> f, lock |-> "free", got |-> FALSE,
               entered_cancelled |-> FALSE, calls |-> 0, touches |-> 0,
               leaves |-> "none", other |-> "idle"]

\* a test that always calls the callback
call_always(f) == TRUE

\* call_sync: "if not future.cancelled()"
call_wanted(f) == ~cancelled(f)

\* asyncio.Future.set_result and set_exception: InvalidStateError on a
\* future that is done, TypeError for a StopIteration
set_future(c, f) ==
    IF done(c.future)
    THEN [c EXCEPT !.leaves = "InvalidStateError"]
    ELSE IF f = Failed("StopIteration")
    THEN [c EXCEPT !.leaves = "TypeError"]
    ELSE [c EXCEPT !.future = f]

\* the exception raised by a callback that raises
Raised(cb) ==
    IF cb = "raises" THEN "Exception"
    ELSE IF cb = "raises_stop" THEN "StopIteration"
    ELSE "BaseException"

\* --------------------------------------------------------------- signals
\* main: the signals given a handler, in the order of the code
Sigs == << "SIGINT", "SIGTERM", "SIGQUIT", "SIGHUP" >>

\* main: the k-th call that sets a handler. An odd k is
\* SigContext.activate(sig, cancel_main), which keeps the previous handler
\* in the context; an even k is loop.add_signal_handler(sig, cancel_main, sig),
\* after which the handler of the process is the no-op handler of asyncio
\* and cancel_main is called by the loop.
InstallStep(h, k) ==
    [h EXCEPT ![Sigs[(k + 1) \div 2]] = IF k % 2 = 1 THEN "cancel_main" ELSE "noop"]

RECURSIVE Install(_, _, _)
\* main: the calls k..n that set a handler
Install(h, k, n) == IF k > n THEN h ELSE Install(InstallStep(h, k), k + 1, n)

\* SigContext.restore of the four contexts, in the finally block of main
restore(h) == [s \in DOMAIN h |-> "previous"]

\* ---------------------------------------------------------------- initial
IdleTask == [pc |-> "none", outcome |-> "none", must_cancel |-> FALSE]
IdleHdl == [pc |-> "none", exc |-> "none"]

InitCommon ==
    /\ mainPc = "expand"
    /\ use_args = [pc |-> "none", use |-> <<>>]
    /\ tlm = NewLaunchMap
    /\ tlm_ret = [op |-> "none", ret |-> "none", n |-> 0]
    /\ call_st = NewCall(call_in.future)
    /\ demap = <<>>
    /\ refmap = [k \in DemapKeys |-> Absent]
    /\ demap_ret = [op |-> "none", key |-> "none", ret |-> "none", ref |-> "none"]
    /\ push_st = NoPush
    /\ sig_handler = [s \in Range(Sigs) |-> "previous"]
    /\ to_call = <<>>
    /\ deps_map = [t \in Tasks |-> <<>>]
    /\ rdeps_map = [t \in Tasks |-> <<>>]
    /\ build_order = <<>>
    /\ finalized = FALSE
    /\ depends = [t \in Tasks |-> <<>>]
    /\ rdepends = [t \in Tasks |-> <<>>]
    /\ exit_future = Pending
    /\ exceptions = <<>>
    /\ pushed = <<>>
    /\ mainReturn = [kind |-> "running", val |-> 0]
    /\ stderr = <<>>
    /\ amainPc = "none"
    /\ harvestIdx = 0
    /\ run_future = [t \in Tasks |-> Pending]
    /\ aio_task = [t \in Tasks |-> IdleTask]
    /\ hdl = [t \in Tasks |-> IdleHdl]
    /\ bodyRuns = [t \in Tasks |-> 0]
    /\ semValue = 0
    /\ semWaiters = <<>>
    /\ signals = 0

\* every dependency graph over ExpandTasks and every request, nothing run
InitDeps ==
    /\ needs \in { [t \in Tasks |-> IF t \in ExpandTasks THEN g[t] ELSE <<>>] :
                      g \in [ExpandTasks -> DistinctSeqs(ExpandTasks, MaxNeeds)] }
    /\ to_sched \in UNION { [1..m -> ExpandTasks] : m \in 1..MaxRequested }
    /\ kind = [t \in Tasks |-> "sync"]
    /\ raises = {}
    /\ body_args = "args"
    /\ max_workers = 1
    /\ continue_opt = FALSE
    /\ dry_run = FALSE
    /\ argspec = NoArgs
    /\ call_in = NoCall
    /\ InitCommon

\* ---------------------------------------------------------------- main
DryRunIgnored(opt) == FALSE

\* main: "if self.option_namespace.dry_run"
DryRunReturn(opt) == opt

\* main: expanding the build order (the loop over to_sched); a
\* CircularDependency passes through FutureManager.__exit__ and leaves main
Expand ==
    /\ mainPc = "expand"
    /\ LET r == ExpandResult IN
       /\ to_call' = r.to_call
       /\ deps_map' = r.deps_map
       /\ rdeps_map' = r.rdeps_map
       /\ IF r.err
          THEN /\ exit_future' = Failed("CircularDependency")
               /\ exceptions' = push_exception_info(exceptions, NoTask,
                                                    "CircularDependency", r.errTask, "tb")
               /\ pushed' = Append(pushed, Call(NoTask, "CircularDependency",
                                                r.errTask, "tb"))
               /\ mainPc' = "raised"
               /\ mainReturn' = [kind |-> "raise", val |-> 0]
               /\ UNCHANGED stderr
          ELSE IF DryRunReturn(dry_run)
          THEN /\ mainPc' = "returned"
               /\ mainReturn' = [kind |-> "int", val |-> 0]
               /\ UNCHANGED << exit_future, exceptions, pushed, stderr >>
          ELSE /\ mainPc' = "create"
               /\ UNCHANGED << exit_future, exceptions, pushed, mainReturn, stderr >>
    /\ UNCHANGED << inputVars, callVars, mapVars, sigVars, runVars >>

\* create_task_proxy without the test of finalized
create_task_proxy_unchecked(lm, name) ==
    [lm EXCEPT !.build_order = Append(@, name),
               !.launch_map = @ \cup {name}]

\* TaskLaunchMap.create_task_proxy on the map lm for the task name
create_task_proxy(lm, name) ==
    IF lm.finalized
    THEN [lm EXCEPT !.err = TRUE]
    ELSE [lm EXCEPT !.build_order = Append(@, name),
                    !.launch_map = @ \cup {name}]

RECURSIVE CreateAll(_, _)
\* main, the loop "for to_task in to_call"
CreateAll(i, lm) ==
    IF i > Len(to_call) THEN lm ELSE CreateAll(i + 1, create_task_proxy(lm, to_call[i]))

\* a finalize that leaves the map as it is
finalize_never(lm) == lm

\* TaskLaunchMap.finalize
finalize(lm) ==
    IF lm.finalized THEN lm ELSE [lm EXCEPT !.finalized = TRUE, !.frozen = TRUE]

\* TaskLaunchMap.finalize, the value returned
finalize_ret(lm) == IF lm.finalized THEN "False" ELSE "True"

\* build_order.append(name) by a holder of the map: a tuple has no append
build_order_append(lm, name) ==
    IF lm.frozen THEN lm ELSE [lm EXCEPT !.build_order = Append(@, name)]

\* launch_map[name] = proxy by a holder of the map: a mappingproxy has no
\* item assignment
launch_map_setitem(lm, name) ==
    IF lm.frozen THEN lm ELSE [lm EXCEPT !.launch_map = @ \cup {name}]

\* main: the run context, the launch map and its proxies, finalize
CreateLaunchMap ==
    /\ mainPc = "create"
    /\ LET lm == finalize(CreateAll(1, NewLaunchMap))
       IN /\ build_order' = lm.build_order
          /\ finalized' = lm.finalized
          /\ depends' = [t \in Tasks |-> IF t \in lm.launch_map THEN deps_map[t] ELSE <<>>]
          /\ rdepends' = [t \in Tasks |-> IF t \in lm.launch_map THEN rdeps_map[t] ELSE <<>>]
    /\ semValue' = max_workers
    /\ UNCHANGED << inputVars, callVars, expandVars, exit_future, exceptions, pushed, stderr,
                    amainPc, harvestIdx, run_future, aio_task, hdl, bodyRuns,
                    semWaiters, signals >>

\* main: the proxies are created, the map is finalized and the handlers of
\* the four signals are set
CreateProxies ==
    /\ CreateLaunchMap
    /\ sig_handler' = Install(sig_handler, 1, 2 * Len(Sigs))
    /\ mainPc' = "amain"
    /\ UNCHANGED mainReturn

\* main: as CreateProxies, but the k-th call that sets a handler, a call of
\* loop.add_signal_handler, raises; the exception leaves main
InstallRaises ==
    /\ CreateLaunchMap
    /\ \E k \in 1..(2 * Len(Sigs)) :
          /\ k % 2 = 0
          /\ sig_handler' = Install(sig_handler, 1, k - 1)
    /\ mainPc' = "raised"
    /\ mainReturn' = [kind |-> "raise", val |-> 0]

\* ------------------------------------------------------------ run state
\* the state a step of the run may change, as one value
World == [rf |-> run_future, ef |-> exit_future, ex |-> exceptions, ps |-> pushed,
          at |-> aio_task, sv |-> semValue, sw |-> semWaiters,
          hd |-> hdl, br |-> bodyRuns]

Commit(w) ==
    /\ run_future' = w.rf
    /\ exit_future' = w.ef
    /\ exceptions' = w.ex
    /\ pushed' = w.ps
    /\ aio_task' = w.at
    /\ semValue' = w.sv
    /\ semWaiters' = w.sw
    /\ hdl' = w.hd
    /\ bodyRuns' = w.br

\* amain has registered cancel_aio_tasks on the exit future
CallbackRegistered == amainPc \in {"gather", "harvest", "done"}

\* amain.cancel_aio_tasks: Task.cancel() on every asyncio task; a task
\* waiting for the semaphore leaves its queue at once
cancel_aio_tasks(w) ==
    IF CallbackRegistered
    THEN [w EXCEPT !.at = [t \in Tasks |->
                             IF w.at[t].pc \in {"none", "finished"}
                             THEN w.at[t]
                             ELSE [w.at[t] EXCEPT !.must_cancel = TRUE]],
                   !.sw = <<>>]
    ELSE w

\* exit_future.set_exception(exc) under "if not fut.done()", with the done
\* callbacks of the future
set_exit_exception(w, e) ==
    IF done(w.ef) THEN w ELSE cancel_aio_tasks([w EXCEPT !.ef = Failed(e)])

\* exit_future.cancel(), with the done callbacks of the future
cancel_exit(w) ==
    IF done(w.ef) THEN w ELSE cancel_aio_tasks([w EXCEPT !.ef = Cancelled])

\* TaskProxyBase.cancel_rdeps
cancel_rdeps(w, p) ==
    [w EXCEPT !.rf = [t \in Tasks |-> IF InSeq(t, rdepends[p])
                                      THEN cancel_future(w.rf[t])
                                      ELSE w.rf[t]]]

cancel_own_only(w, p, with_rdeps) == [w EXCEPT !.rf[p] = cancel_future(@)]

\* TaskProxyBase.cancel
cancel(w, p, with_rdeps) ==
    LET w1 == [w EXCEPT !.rf[p] = cancel_future(@)]
    IN IF with_rdeps THEN cancel_rdeps(w1, p) ELSE w1

\* a loop over the build order that stops after its first proxy
CancelFirst(w, i) ==
    IF i > Len(build_order) THEN w ELSE cancel(w, build_order[i], FALSE)

RECURSIVE CancelEach(_, _)
\* TaskLaunchMap.cancel
CancelEach(w, i) ==
    IF i > Len(build_order) THEN w
    ELSE CancelEach(cancel(w, build_order[i], FALSE), i + 1)

\* TaskProxyBase.defer_exception; the call leaves the map as it is when
\* hash() raises
defer_exception(w, task, etype, eargs, tbk) ==
    [w EXCEPT !.ex = IF Hashable(eargs)
                     THEN push_exception_info(@, task, etype, eargs, tbk)
                     ELSE @,
              !.ps = Append(@, Call(task, etype, eargs, tbk))]

\* exception.args of an exception of the run
ErrArgs(e) == IF e = "BodyError" THEN body_args ELSE "args"

\* the exception that leaves managed_context when e was raised inside it:
\* the TypeError of hash() replaces e
Leaves(e) == IF Hashable(ErrArgs(e)) THEN e ELSE "TypeError"

\* TaskProxyBase.stop_on_exception: the attribute read on the receiver is
\* the method Basalt.stop_on_exception itself, which is true as a condition
\* whatever -k/--continue says
stop_on_exception(opt) == TRUE

\* TaskProxyBase.can_run
can_run(w, p) ==
    /\ ~cancelled(w.ef)
    /\ \A i \in 1..Len(depends[p]) : ~done(w.rf[depends[p][i]])

\* managed_context reaches its yield
GuardOpen(w, p) == ~cancelled(w.ef) /\ ~cancelled(w.rf[p])

\* FutureManager.__exit__ for the run future of p, leaving with exception e
fm_exit_run(w, p, e) ==
    cancel_rdeps(IF done(w.rf[p]) THEN w ELSE [w EXCEPT !.rf[p] = Failed(e)], p)

\* FutureManager.__exit__ for the exit future, leaving with exception e
fm_exit_exit(w, p, e) ==
    LET w1 == IF stop_on_exception(continue_opt) THEN set_exit_exception(w, e) ELSE w
    IN defer_exception(w1, p, e, ErrArgs(e), "tb")

\* both managers of managed_context, innermost first
fm_exit(w, p, e) == fm_exit_exit(fm_exit_run(w, p, e), p, e)

\* a release that gives the slot back to nobody
release_nothing(w) == w

\* workers_semaphore.release()
release(w) == [w EXCEPT !.sv = @ + 1]

\* the asyncio task of p ends: a return becomes a cancellation when a
\* cancel request is still undelivered
finish(w, p, outcome) ==
    [w EXCEPT !.at[p] = [pc |-> "finished",
                         outcome |-> IF outcome = "returned" /\ w.at[p].must_cancel
                                     THEN "cancelled" ELSE outcome,
                         must_cancel |-> FALSE]]

\* the event loop thread is inside hdl.exception() of some proxy
LoopBusy == \E t \in Tasks : aio_task[t].pc = "hdl_wait"

\* ------------------------------------------------------ proxy activities
\* AsyncTaskProxy.launch_task from the end of the task function on
AsyncBodyEnd(w, p) ==
    IF p \in raises
    THEN finish(fm_exit(release(w), p, "BodyError"), p, Leaves("BodyError"))
    ELSE finish(release(IF done(w.rf[p]) THEN w ELSE [w EXCEPT !.rf[p] = Finished(0)]),
                p, "returned")

\* launch_task inside "async with sem", up to its first suspension
Begin(w, p, susp) ==
    IF kind[p] = "sync"
    THEN [w EXCEPT !.hd[p] = [pc |-> "queued", exc |-> "none"],
                   !.at[p].pc = IF done(w.rf[p]) THEN "hdl_wait" ELSE "poll"]
    ELSE LET w1 == [w EXCEPT !.br[p] = @ + 1]
         IN IF susp THEN [w1 EXCEPT !.at[p].pc = "body"] ELSE AsyncBodyEnd(w1, p)

AcquireAlways(w) == TRUE

\* workers_semaphore.acquire() returns without waiting
AcquireNow(w) == w.sv > 0 /\ w.sw = <<>>

\* the first step of the asyncio task of p, in the order of create_task
LaunchStart(p) ==
    /\ amainPc = "gather"
    /\ aio_task[p].pc = "created"
    /\ \A i \in 1..Len(build_order) :
         i < IndexOf(p, build_order) => aio_task[build_order[i]].pc # "created"
    /\ ~LoopBusy
    /\ \E susp \in BOOLEAN :
         LET w == World IN
         Commit(IF w.at[p].must_cancel
                THEN finish([w EXCEPT !.at[p].must_cancel = FALSE], p, "cancelled")
                ELSE IF ~can_run(w, p)
                THEN finish(cancel(w, p, TRUE), p, "returned")
                ELSE IF ~GuardOpen(w, p)
                THEN finish(w, p, "RuntimeError")
                ELSE IF AcquireNow(w)
                THEN Begin([w EXCEPT !.sv = @ - 1], p, susp)
                ELSE [w EXCEPT !.sw = Append(@, p), !.at[p].pc = "sem_wait"])
    /\ UNCHANGED << inputVars, callVars, mainPc, expandVars, mapVars, sigVars, mainReturn, stderr,
                    amainPc, harvestIdx, signals >>

\* a waiting activity is woken with the semaphore
SemResume(p) ==
    /\ aio_task[p].pc = "sem_wait"
    /\ ~aio_task[p].must_cancel
    /\ semWaiters # <<>> /\ Head(semWaiters) = p
    /\ semValue > 0
    /\ ~LoopBusy
    /\ \E susp \in BOOLEAN :
         LET w == World IN
         Commit(Begin([w EXCEPT !.sv = @ - 1, !.sw = Tail(@)], p, susp))
    /\ UNCHANGED << inputVars, callVars, mainPc, expandVars, mapVars, sigVars, mainReturn, stderr,
                    amainPc, harvestIdx, signals >>

\* a waiting activity is cancelled: CancelledError leaves managed_context
SemCancelled(p) ==
    /\ aio_task[p].pc = "sem_wait"
    /\ aio_task[p].must_cancel
    /\ ~LoopBusy
    /\ LET w == World IN
       Commit(finish(fm_exit([w EXCEPT !.at[p].must_cancel = FALSE], p, "CancelledError"),
                     p, "cancelled"))
    /\ UNCHANGED << inputVars, callVars, mainPc, expandVars, mapVars, sigVars, mainReturn, stderr,
                    amainPc, harvestIdx, signals >>

\* SyncTaskProxy.launch_task: the polling loop ends, by the run future or
\* by a cancellation of the sleep
Poll(p) ==
    /\ aio_task[p].pc = "poll"
    /\ aio_task[p].must_cancel \/ done(run_future[p])
    /\ ~LoopBusy
    /\ aio_task' = [aio_task EXCEPT ![p] = [@ EXCEPT !.pc = "hdl_wait",
                                                     !.must_cancel = FALSE]]
    /\ UNCHANGED << inputVars, callVars, mainPc, expandVars, mapVars, sigVars, exit_future,
                    exceptions, pushed, mainReturn, stderr, amainPc, harvestIdx, run_future,
                    hdl, bodyRuns, semValue, semWaiters, signals >>

\* SyncTaskProxy.launch_task from hdl.exception() on: the loop thread has
\* waited for the worker
HdlJoin(p) ==
    /\ aio_task[p].pc = "hdl_wait"
    /\ hdl[p].pc = "done"
    /\ LET w == World
           exc == hdl[p].exc
           w1 == IF exc = "none" THEN w
                 ELSE defer_exception(w, p, exc, ErrArgs(exc), "None")
           w2 == IF exc # "none" /\ stop_on_exception(continue_opt)
                 THEN set_exit_exception(w1, exc) ELSE w1
           w3 == IF done(w2.rf[p]) THEN w2
                 ELSE [w2 EXCEPT !.rf[p] = IF exc = "none" THEN Finished(0) ELSE Failed(exc)]
       IN Commit(finish(release(w3), p, "returned"))
    /\ UNCHANGED << inputVars, callVars, mainPc, expandVars, mapVars, sigVars, mainReturn, stderr,
                    amainPc, harvestIdx, signals >>

\* AsyncTaskProxy.launch_task: the suspended task function is resumed, or
\* cancelled where it is suspended
AsyncResume(p) ==
    /\ aio_task[p].pc = "body"
    /\ ~LoopBusy
    /\ LET w == World IN
       Commit(IF w.at[p].must_cancel
              THEN finish(release([w EXCEPT !.at[p].must_cancel = FALSE]), p, "returned")
              ELSE AsyncBodyEnd(w, p))
    /\ UNCHANGED << inputVars, callVars, mainPc, expandVars, mapVars, sigVars, mainReturn, stderr,
                    amainPc, harvestIdx, signals >>

\* --------------------------------------------------------- worker threads
\* SyncTaskProxy.callback enters managed_context on an executor thread
WorkerStart(p) ==
    /\ hdl[p].pc = "queued"
    /\ IF GuardOpen(World, p)
       THEN /\ hdl' = [hdl EXCEPT ![p].pc = "body"]
            /\ bodyRuns' = [bodyRuns EXCEPT ![p] = @ + 1]
       ELSE /\ hdl' = [hdl EXCEPT ![p] = [pc |-> "done", exc |-> "RuntimeError"]]
            /\ UNCHANGED bodyRuns
    /\ UNCHANGED << inputVars, callVars, mainPc, expandVars, mapVars, sigVars, exit_future,
                    exceptions, pushed, mainReturn, stderr, amainPc, harvestIdx, run_future,
                    aio_task, semValue, semWaiters, signals >>

\* the task function returns or raises on its thread; after a return the
\* callback tests 'not run_future.done()'
WorkerBody(p) ==
    /\ hdl[p].pc = "body"
    /\ hdl' = [hdl EXCEPT ![p] =
                 IF p \in raises THEN [pc |-> "exit_run", exc |-> "BodyError"]
                 ELSE IF done(run_future[p]) THEN [pc |-> "done", exc |-> "none"]
                 ELSE [pc |-> "set_result", exc |-> "none"]]
    /\ UNCHANGED << inputVars, callVars, mainPc, expandVars, mapVars, sigVars, exit_future,
                    exceptions, pushed, mainReturn, stderr, amainPc, harvestIdx, run_future,
                    aio_task, bodyRuns, semValue, semWaiters, signals >>

\* the callback calls run_future.set_result after the test: the call raises
\* InvalidStateError when the future was cancelled in between, and only
\* CancelledError is caught around it
WorkerSetResult(p) ==
    /\ hdl[p].pc = "set_result"
    /\ IF done(run_future[p])
       THEN /\ hdl' = [hdl EXCEPT ![p] = [pc |-> "exit_run", exc |-> "InvalidStateError"]]
            /\ UNCHANGED run_future
       ELSE /\ hdl' = [hdl EXCEPT ![p] = [pc |-> "done", exc |-> "none"]]
            /\ run_future' = [run_future EXCEPT ![p] = Finished(0)]
    /\ UNCHANGED << inputVars, callVars, mainPc, expandVars, mapVars, sigVars, exit_future,
                    exceptions, pushed, mainReturn, stderr, amainPc, harvestIdx, aio_task,
                    bodyRuns, semValue, semWaiters, signals >>

\* the exception leaves the manager of the run future
WorkerExitRun(p) ==
    /\ hdl[p].pc = "exit_run"
    /\ Commit(fm_exit_run([World EXCEPT !.hd[p].pc = "exit_exit"], p, hdl[p].exc))
    /\ UNCHANGED << inputVars, callVars, mainPc, expandVars, mapVars, sigVars, mainReturn, stderr,
                    amainPc, harvestIdx, signals >>

\* the exception leaves the manager of the exit future and the callback
WorkerExitExit(p) ==
    /\ hdl[p].pc = "exit_exit"
    /\ Commit(fm_exit_exit([World EXCEPT !.hd[p] = [pc |-> "done",
                                                     exc |-> Leaves(hdl[p].exc)]],
                           p, hdl[p].exc))
    /\ UNCHANGED << inputVars, callVars, mainPc, expandVars, mapVars, sigVars, mainReturn, stderr,
                    amainPc, harvestIdx, signals >>

\* ---------------------------------------------------------------- amain
\* amain: create_task for every proxy, add_done_callback, gather
Spawn ==
    /\ mainPc = "amain"
    /\ amainPc = "none"
    /\ amainPc' = "gather"
    /\ aio_task' = [t \in Tasks |->
                      IF InSeq(t, build_order)
                      THEN [pc |-> "created", outcome |-> "none",
                            must_cancel |-> done(exit_future)]
                      ELSE aio_task[t]]
    /\ UNCHANGED << inputVars, callVars, mainPc, expandVars, mapVars, sigVars, exit_future,
                    exceptions, pushed, mainReturn, stderr, harvestIdx, run_future, hdl,
                    bodyRuns, semValue, semWaiters, signals >>

\* amain: gather returns when every asyncio task has ended
GatherDone ==
    /\ amainPc = "gather"
    /\ \A i \in 1..Len(build_order) : aio_task[build_order[i]].pc = "finished"
    /\ amainPc' = "harvest"
    /\ harvestIdx' = 1
    /\ UNCHANGED << inputVars, callVars, mainPc, expandVars, mapVars, sigVars, exit_future,
                    exceptions, pushed, mainReturn, stderr, run_future, aio_task, hdl,
                    bodyRuns, semValue, semWaiters, signals >>

\* an asyncio task that is never found to hold an exception
residual_none(at) == "none"

\* amain: aio_task.exception() of a finished asyncio task, the CancelledError
\* of a cancelled one being caught
residual(at) == IF at.outcome \in {"returned", "cancelled"} THEN "none" ELSE at.outcome

\* amain: one round of the finalizing loop, once the run future is done
Harvest ==
    /\ amainPc = "harvest"
    /\ harvestIdx <= Len(build_order)
    /\ LET p == build_order[harvestIdx]
           exc == residual(aio_task[p])
       IN
       /\ done(run_future[p])
       /\ IF exc = "none"
          THEN UNCHANGED << exceptions, pushed >>
          ELSE /\ exceptions' = push_exception_info(exceptions, p, exc, ErrArgs(exc), "stack")
               /\ pushed' = Append(pushed, Call(p, exc, ErrArgs(exc), "stack"))
    /\ harvestIdx' = harvestIdx + 1
    /\ UNCHANGED << inputVars, callVars, mainPc, expandVars, mapVars, sigVars, exit_future,
                    mainReturn, stderr, amainPc, run_future, aio_task, hdl, bodyRuns,
                    semValue, semWaiters, signals >>

\* a result set without looking at the state of the exit future
exit_result_always(ef, emap) == Finished(Len(emap))

\* amain: "if not exit_future.done(): exit_future.set_result(nr_exceptions)"
exit_result(ef, emap) == IF done(ef) THEN ef ELSE Finished(Len(emap))

\* amain: the exit future is given its result, amain returns, the thread
\* is joined
HarvestEnd ==
    /\ amainPc = "harvest"
    /\ harvestIdx > Len(build_order)
    /\ exit_future' = exit_result(exit_future, exceptions)
    /\ amainPc' = "done"
    /\ mainPc' = "tail"
    /\ UNCHANGED << inputVars, callVars, expandVars, mapVars, sigVars, exceptions, pushed, mainReturn, stderr,
                    harvestIdx, run_future, aio_task, hdl, bodyRuns, semValue,
                    semWaiters, signals >>

\* main.cancel_main, run by the loop for SIGINT, SIGTERM, SIGQUIT, SIGHUP
Signal ==
    /\ amainPc \in {"gather", "harvest"}
    /\ ~LoopBusy
    /\ signals < MaxSignals
    /\ signals' = signals + 1
    /\ Commit(CancelEach(cancel_exit(World), 1))
    /\ UNCHANGED << inputVars, callVars, mainPc, expandVars, mapVars, sigVars, mainReturn, stderr,
                    amainPc, harvestIdx >>

\* ------------------------------------------------------------ main, end
RECURSIVE ReportLoop(_, _, _)
\* main: "for datum in self.each_exception()", whose body ends in return
ReportLoop(emap, i, rc) ==
    IF i > Len(emap)
    THEN [kind |-> "none", val |-> 0]
    ELSE [kind |-> "int", val |-> IF rc < 256 THEN rc + 1 ELSE rc]

\* main: the line written for one entry of the exception map
ErrorLine(datum) ==
    IF datum.task # NoTask
    THEN [head |-> "Task error", name |-> datum.task, etype |-> datum.etype]
    ELSE [head |-> "Error", name |-> NoTask, etype |-> datum.etype]

\* main: the lines written by "for datum in self.each_exception()", whose
\* body ends in return
ReportLines(emap, i) ==
    IF i > Len(emap) THEN <<>> ELSE << ErrorLine(emap[i]) >>

\* main after the with block: what main returns
main_return(ef, emap) ==
    LET exc == IF done(ef) /\ ~cancelled(ef) THEN ef.exc ELSE "none"
        rc == IF exc = "none" THEN 0 ELSE 1
    IN ReportLoop(emap, 1, rc)

\* sys.exit(Basalt().main(...)): the exit status of the process
ExitStatus(ret) ==
    IF ret.kind = "int" THEN ret.val
    ELSE IF ret.kind = "none" THEN 0
    ELSE 1

MainTail ==
    /\ mainPc = "tail"
    /\ exit_future' = IF done(exit_future) THEN exit_future ELSE Finished(0)
    /\ mainReturn' = main_return(exit_future', exceptions)
    /\ stderr' = ReportLines(exceptions, 1)
    /\ sig_handler' = restore(sig_handler)
    /\ mainPc' = "returned"
    /\ UNCHANGED << inputVars, callVars, expandVars, mapVars, exceptions, pushed, runVars >>

\* ------------------------------------------------------------ the run
Chain == [t \in Tasks |-> IF t = "package" THEN <<"test">>
                          ELSE IF t = "test" THEN <<"build">> ELSE <<>>]
Independent == [t \in Tasks |-> <<>>]
MutualCycle == [t \in Tasks |-> IF t = "build" THEN <<"test">>
                                ELSE IF t = "test" THEN <<"build">> ELSE <<>>]
InnerCycle == [t \in Tasks |-> IF t = "build" THEN <<"test">>
                               ELSE IF t = "test" THEN <<"package">> ELSE <<"test">>]

\* the chain with deploy needing package
Chain4 == [t \in Tasks |-> IF t = "deploy" THEN <<"package">> ELSE Chain[t]]

RunGraphs == {Chain, Independent, MutualCycle, InnerCycle}
RunRequests == {<<"package">>, <<"build">>, <<"build", "test">>}
RunKinds == [Tasks -> {"sync", "async"}]
RunRaises == {{}} \cup { {t} : t \in Tasks }
\* args of a body's error: a string, or a list as in CalledProcessError
RunBodyArgs == {"args", "([..],)"}
CascadeRequests == {<<"test", "deploy">>, <<"test", "package", "deploy">>}

Init ==
    /\ needs \in RunGraphs
    /\ to_sched \in RunRequests
    /\ kind \in RunKinds
    /\ raises \in RunRaises
    /\ body_args \in RunBodyArgs
    /\ raises = {} => body_args = "args"
    \* a task outside the build list is never looked at
    /\ \A t \in Tasks \ Range(ExpandResult.to_call) : kind[t] = "sync" /\ t \notin raises
    /\ max_workers \in 1..MaxJobs
    /\ continue_opt \in BOOLEAN
    /\ dry_run \in BOOLEAN
    /\ argspec = NoArgs
    /\ call_in = NoCall
    /\ InitCommon

Next ==
    \/ Expand
    \/ CreateProxies
    \/ Spawn
    \/ \E p \in Tasks : LaunchStart(p)
    \/ \E p \in Tasks : SemResume(p)
    \/ \E p \in Tasks : SemCancelled(p)
    \/ \E p \in Tasks : Poll(p)
    \/ \E p \in Tasks : HdlJoin(p)
    \/ \E p \in Tasks : AsyncResume(p)
    \/ \E p \in Tasks : WorkerStart(p)
    \/ \E p \in Tasks : WorkerBody(p)
    \/ \E p \in Tasks : WorkerSetResult(p)
    \/ \E p \in Tasks : WorkerExitRun(p)
    \/ \E p \in Tasks : WorkerExitExit(p)
    \/ GatherDone
    \/ Harvest
    \/ HarvestEnd
    \/ Signal
    \/ MainTail

Spec == Init /\ [][Next]_vars

\* the chain of four tasks with a requested task in its middle
InitCascade ==
    /\ needs = Chain4
    /\ to_sched \in CascadeRequests
    /\ kind \in RunKinds
    /\ raises \in {{}, {"build"}}
    /\ body_args = "args"
    /\ max_workers \in 1..MaxJobs
    /\ continue_opt = FALSE
    /\ dry_run = FALSE
    /\ argspec = NoArgs
    /\ call_in = NoCall
    /\ InitCommon

SpecCascade == InitCascade /\ [][Next]_vars

\* the values push_exception_info is called with, from any caller
LedgerTasks == {NoTask, "build"}
LedgerTypes == {"BodyError", "RuntimeError"}
LedgerArgs == {"(-1,)", "(-2,)", "(1,)"}
LedgerTracebacks == {"tb", "None"}

InitLedger ==
    /\ needs = Independent
    /\ to_sched = <<"build">>
    /\ kind = [t \in Tasks |-> "sync"]
    /\ raises = {}
    /\ body_args = "args"
    /\ max_workers = 1
    /\ continue_opt = FALSE
    /\ dry_run = FALSE
    /\ argspec = NoArgs
    /\ call_in = NoCall
    /\ InitCommon

\* one call of Basalt.push_exception_info
Record ==
    /\ Len(pushed) < MaxRecordings
    /\ \E t \in LedgerTasks, e \in LedgerTypes, a \in LedgerArgs, tb \in LedgerTracebacks :
         /\ exceptions' = push_exception_info(exceptions, t, e, a, tb)
         /\ pushed' = Append(pushed, Call(t, e, a, tb))
    /\ UNCHANGED << inputVars, callVars, mainPc, expandVars, mapVars, sigVars, exit_future, mainReturn,
                    stderr, runVars >>

NextLedger == Record

SpecLedger == InitLedger /\ [][NextLedger]_vars

\* every task function of up to MaxParams parameters
InitArgs ==
    /\ needs = Independent
    /\ to_sched = <<"build">>
    /\ kind = [t \in Tasks |-> "sync"]
    /\ raises = {}
    /\ body_args = "args"
    /\ max_workers = 1
    /\ continue_opt = FALSE
    /\ dry_run = FALSE
    /\ argspec \in { [funcargs |-> f, nr_defaults |-> d] :
                       f \in UNION { [1..m -> Params] : m \in 1..MaxParams },
                       d \in 0..MaxParams }
    /\ call_in = NoCall
    /\ argspec.nr_defaults <= Len(argspec.funcargs)
    /\ \A i, j \in 1..Len(argspec.funcargs) :
          i # j => argspec.funcargs[i].name # argspec.funcargs[j].name
    /\ InitCommon

\* one call of TaskProxyBase.get_kwargs
GetKwargs ==
    /\ use_args.pc = "none"
    /\ use_args' = get_kwargs(argspec, 0, <<>>)
    /\ UNCHANGED << inputVars, tlm, tlm_ret, call_st, demapVars, push_st, mainPc, expandVars, mapVars, sigVars,
                    exit_future, exceptions, pushed, mainReturn, stderr, runVars >>

NextArgs == GetKwargs

\* an empty Demap and an empty dict
InitDemap ==
    /\ needs = Independent
    /\ to_sched = <<"build">>
    /\ kind = [t \in Tasks |-> "sync"]
    /\ raises = {}
    /\ body_args = "args"
    /\ max_workers = 1
    /\ continue_opt = FALSE
    /\ dry_run = FALSE
    /\ argspec = NoArgs
    /\ call_in = NoCall
    /\ InitCommon

\* what an operation on the Demap leaves alone
DemapFrame ==
    UNCHANGED << inputVars, use_args, tlm, tlm_ret, call_st, push_st, mainPc, expandVars, mapVars,
                 sigVars, exit_future, exceptions, pushed, mainReturn, stderr, runVars >>

\* demap[key] = value
DemapSet(key, value) ==
    /\ demap' = demap_setitem(demap, key, value)
    /\ refmap' = ref_setitem(refmap, key, value)
    /\ demap_ret' = [op |-> "set", key |-> key, ret |-> "None", ref |-> "None"]
    /\ DemapFrame

\* demap.get(key)
DemapGet(key) ==
    /\ demap_ret' = [op |-> "get", key |-> key,
                     ret |-> demap_get(demap, key), ref |-> ref_get(refmap, key)]
    /\ UNCHANGED << demap, refmap >>
    /\ DemapFrame

\* demap[key]
DemapIndex(key) ==
    /\ demap_ret' = [op |-> "index", key |-> key,
                     ret |-> demap_getitem(demap, key), ref |-> ref_getitem(refmap, key)]
    /\ UNCHANGED << demap, refmap >>
    /\ DemapFrame

\* del demap[key]
DemapDel(key) ==
    /\ demap' = demap_delitem(demap, key)
    /\ refmap' = ref_delitem(refmap, key)
    /\ demap_ret' = [op |-> "del", key |-> key,
                     ret |-> IF demap_contains(demap, key) THEN "None" ELSE "KeyError",
                     ref |-> IF ref_contains(refmap, key) THEN "None" ELSE "KeyError"]
    /\ DemapFrame

\* key in demap
DemapContains(key) ==
    /\ demap_ret' = [op |-> "in", key |-> key,
                     ret |-> IF demap_contains(demap, key) THEN "True" ELSE "False",
                     ref |-> IF ref_contains(refmap, key) THEN "True" ELSE "False"]
    /\ UNCHANGED << demap, refmap >>
    /\ DemapFrame

NextDemap ==
    \/ \E key \in DemapKeys, value \in DemapValues : DemapSet(key, value)
    \/ \E key \in DemapKeys : DemapGet(key)
    \/ \E key \in DemapKeys : DemapIndex(key)
    \/ \E key \in DemapKeys : DemapDel(key)
    \/ \E key \in DemapKeys : DemapContains(key)

SpecDemap == InitDemap /\ [][NextDemap]_vars

\* one call of call_sync on a new or cancelled future, with another holder
\* of the future that cancels it under the lock
InitCall ==
    /\ needs = Independent
    /\ to_sched = <<"build">>
    /\ kind = [t \in Tasks |-> "sync"]
    /\ raises = {}
    /\ body_args = "args"
    /\ max_workers = 1
    /\ continue_opt = FALSE
    /\ dry_run = FALSE
    /\ argspec = NoArgs
    /\ call_in \in [context : Contexts, callback : Callbacks, future : {Pending, Cancelled}]
    /\ InitCommon

\* what a step of call_sync leaves alone
CallFrame ==
    UNCHANGED << inputVars, use_args, tlm, tlm_ret, demapVars, push_st, mainPc, expandVars, mapVars,
                 sigVars, exit_future, exceptions, pushed, mainReturn, stderr, runVars >>

\* call_sync: "with context", the context is entered. A lock is waited
\* for; lock_context with a timeout goes on without the lock when the
\* lock is not free.
CallSyncEnter ==
    /\ call_st.pc = "start"
    /\ call_in.context = "lock" => call_st.lock = "free"
    /\ LET got == call_in.context # "identity_context" /\ call_st.lock = "free" IN
       call_st' = [call_st EXCEPT !.pc = "entered",
                                  !.got = got,
                                  !.lock = IF got THEN "call_sync" ELSE @,
                                  !.entered_cancelled = cancelled(call_st.future)]
    /\ CallFrame

\* call_sync: the test of future.cancelled()
CallSyncTest ==
    /\ call_st.pc = "entered"
    /\ call_st' = [call_st EXCEPT !.pc = IF call_wanted(call_st.future)
                                         THEN "call" ELSE "exit"]
    /\ CallFrame

\* call_sync: the callback is called and returns or raises
CallSyncCallback ==
    /\ call_st.pc = "call"
    /\ call_st' = [call_st EXCEPT
                      !.calls = @ + 1,
                      !.pc = IF call_in.callback = "returns" THEN "set_result"
                             ELSE IF call_in.callback \in {"raises", "raises_stop"}
                             THEN "set_exception"
                             ELSE "exit",
                      !.leaves = IF call_in.callback = "raises_base"
                                 THEN Raised(call_in.callback) ELSE @]
    /\ CallFrame

\* call_sync: future.set_exception(exc) or future.set_result(rslt)
CallSyncRecord ==
    /\ call_st.pc \in {"set_result", "set_exception"}
    /\ LET c == [call_st EXCEPT !.pc = "exit", !.touches = @ + 1] IN
       call_st' = set_future(c, IF call_st.pc = "set_result"
                                THEN Finished(0) ELSE Failed(Raised(call_in.callback)))
    /\ CallFrame

\* call_sync: the context is left, a lock that was acquired is released
CallSyncExit ==
    /\ call_st.pc = "exit"
    /\ call_st' = [call_st EXCEPT !.pc = "done",
                                  !.lock = IF call_st.got THEN "free" ELSE @]
    /\ CallFrame

\* the other holder of the future acquires its lock
OtherAcquire ==
    /\ call_in.context # "identity_context"
    /\ call_st.other = "idle"
    /\ call_st.lock = "free"
    /\ call_st' = [call_st EXCEPT !.lock = "other", !.other = "locked"]
    /\ CallFrame

\* the other holder cancels the future under the lock
OtherCancel ==
    /\ call_st.other = "locked"
    /\ call_st' = [call_st EXCEPT !.future = cancel_future(@), !.other = "cancelled"]
    /\ CallFrame

\* the other holder releases the lock
OtherRelease ==
    /\ call_st.other = "cancelled"
    /\ call_st.lock = "other"
    /\ call_st' = [call_st EXCEPT !.lock = "free", !.other = "done"]
    /\ CallFrame

NextCall ==
    \/ CallSyncEnter
    \/ CallSyncTest
    \/ CallSyncCallback
    \/ CallSyncRecord
    \/ CallSyncExit
    \/ OtherAcquire
    \/ OtherCancel
    \/ OtherRelease

SpecCall == InitCall /\ [][NextCall]_vars

\* a launch map of its own, with up to MaxCalls calls on it
InitMap ==
    /\ needs = Independent
    /\ to_sched = <<"build">>
    /\ kind = [t \in Tasks |-> "sync"]
    /\ raises = {}
    /\ body_args = "args"
    /\ max_workers = 1
    /\ continue_opt = FALSE
    /\ dry_run = FALSE
    /\ argspec = NoArgs
    /\ call_in = NoCall
    /\ InitCommon

\* what a call on the launch map leaves alone
MapCallFrame ==
    UNCHANGED << inputVars, use_args, call_st, demapVars, push_st, mainPc, expandVars, mapVars, sigVars, exit_future,
                 exceptions, pushed, mainReturn, stderr, runVars >>

\* one call of TaskLaunchMap.create_task_proxy
CreateTaskProxy(name) ==
    /\ tlm_ret.n < MaxCalls
    /\ LET r == create_task_proxy(tlm, name) IN
       /\ tlm' = [r EXCEPT !.err = FALSE]
       /\ tlm_ret' = [op |-> "create_task_proxy",
                      ret |-> IF r.err THEN "BoundValue" ELSE "proxy",
                      n |-> tlm_ret.n + 1]
    /\ MapCallFrame

\* one call of TaskLaunchMap.finalize
Finalize ==
    /\ tlm_ret.n < MaxCalls
    /\ tlm' = finalize(tlm)
    /\ tlm_ret' = [op |-> "finalize", ret |-> finalize_ret(tlm), n |-> tlm_ret.n + 1]
    /\ MapCallFrame

\* an attempt to append to the build order of a finalized map
BuildOrderAppend(name) ==
    /\ tlm_ret.n < MaxCalls
    /\ tlm.finalized
    /\ tlm' = build_order_append(tlm, name)
    /\ tlm_ret' = [op |-> "append", ret |-> IF tlm.frozen THEN "AttributeError" ELSE "None",
                   n |-> tlm_ret.n + 1]
    /\ MapCallFrame

\* an attempt to set an item of the name map of a finalized map
LaunchMapSetItem(name) ==
    /\ tlm_ret.n < MaxCalls
    /\ tlm.finalized
    /\ tlm' = launch_map_setitem(tlm, name)
    /\ tlm_ret' = [op |-> "setitem", ret |-> IF tlm.frozen THEN "TypeError" ELSE "None",
                   n |-> tlm_ret.n + 1]
    /\ MapCallFrame

NextMap ==
    \/ \E name \in ExpandTasks : CreateTaskProxy(name)
    \/ Finalize
    \/ \E name \in ExpandTasks : BuildOrderAppend(name)
    \/ \E name \in ExpandTasks : LaunchMapSetItem(name)

SpecMap == InitMap /\ [][NextMap]_vars

\* the runs of up to three tasks with a loop whose add_signal_handler may
\* raise
InitSignals ==
    /\ needs \in {Independent, Chain}
    /\ to_sched \in {<<"build">>, <<"build", "test">>, <<"package">>}
    /\ kind \in RunKinds
    /\ raises \in RunRaises
    /\ body_args = "args"
    /\ \A t \in Tasks \ Range(ExpandResult.to_call) : kind[t] = "sync" /\ t \notin raises
    /\ max_workers \in 1..MaxJobs
    /\ continue_opt = FALSE
    /\ dry_run = FALSE
    /\ argspec = NoArgs
    /\ call_in = NoCall
    /\ InitCommon

NextSignals == Next \/ InstallRaises

SpecSignals == InitSignals /\ [][NextSignals]_vars

\* the same runs with every thread and the event loop taking their steps:
\* a step that is possible is eventually taken; no signal has to arrive
Fairness == WF_vars(Next /\ signals' = signals)

SpecLive == InitSignals /\ [][Next]_vars /\ Fairness


SpecArgs == InitArgs /\ [][NextArgs]_vars

NextDeps == Expand \/ CreateProxies

SpecDeps == InitDeps /\ [][NextDeps]_vars

\* ------------------------------------------- concurrent recordings
\* the recordings made on the two threads
PushCalls ==
    { Call("build", "BodyError", "(1,)", "tb"),
      Call("build", "RuntimeError", "(1,)", "None"),
      Call(NoTask, "BodyError", "(1,)", "tb") }

InitPush ==
    /\ needs = Independent
    /\ to_sched = <<"build">>
    /\ kind = [t \in Tasks |-> "sync"]
    /\ raises = {}
    /\ body_args = "args"
    /\ max_workers = 1
    /\ continue_opt = FALSE
    /\ dry_run = FALSE
    /\ argspec = NoArgs
    /\ call_in = NoCall
    /\ InitCommon

\* what a step of push_exception_info leaves alone
PushFrame ==
    UNCHANGED << inputVars, use_args, tlm, tlm_ret, call_st, demapVars, mainPc, expandVars,
                 mapVars, sigVars, exit_future, mainReturn, stderr, runVars >>

\* push_exception_info is entered on thread t: emap = self._exceptions
PushRead(t) ==
    /\ push_st.thr[t].pc = "idle"
    /\ Len(pushed) < MaxRecordings
    /\ \E c \in PushCalls :
         /\ push_st' = [push_st EXCEPT !.thr[t] = [pc |-> "test", call |-> c,
                                                  emap |-> push_st.ref]]
         /\ pushed' = Append(pushed, c)
    /\ UNCHANGED exceptions
    /\ PushFrame

\* 'if not emap: emap = dict(); self._exceptions = emap'
PushInit(t) ==
    /\ push_st.thr[t].pc = "test"
    /\ LET e == push_st.thr[t].emap
           fresh == e = 0 \/ push_st.heap[e] = <<>>
           n == Len(push_st.heap) + 1
       IN push_st' = IF fresh
                     THEN [push_st EXCEPT !.heap = Append(@, <<>>), !.ref = n,
                                          !.thr[t].emap = n, !.thr[t].pc = "insert"]
                     ELSE [push_st EXCEPT !.thr[t].pc = "insert"]
    /\ exceptions' = ledger_of(push_st')
    /\ UNCHANGED pushed
    /\ PushFrame

\* 'if token not in emap: emap[token] = (task, exc_type, exc_args, tbk)'
PushInsert(t) ==
    /\ push_st.thr[t].pc = "insert"
    /\ LET e == push_st.thr[t].emap
           c == push_st.thr[t].call
       IN push_st' = [push_st EXCEPT
                        !.heap[e] = push_exception_info(@, c.task, c.etype, c.eargs, c.tbk),
                        !.thr[t].pc = "idle"]
    /\ exceptions' = ledger_of(push_st')
    /\ UNCHANGED pushed
    /\ PushFrame

NextPush ==
    \/ \E t \in Threads : PushRead(t)
    \/ \E t \in Threads : PushInit(t)
    \/ \E t \in Threads : PushInsert(t)

SpecPush == InitPush /\ [][NextPush]_vars

\* ================================================================ claims
\* the tasks a task depends on, directly or transitively, by Task.needs
RECURSIVE Closure(_, _)
Closure(S, n) ==
    IF n = 0 THEN S
    ELSE Closure(S \cup UNION { Range(needs[a]) : a \in S }, n - 1)

Descendants(t) == Closure(Range(needs[t]), Cardinality(Tasks))

Requested == Range(to_sched)

Wanted == Requested \cup UNION { Descendants(t) : t \in Requested }

CycleReachable == \E t \in Wanted : t \in Descendants(t)

NoDuplicates(s) == \A i, j \in 1..Len(s) : i # j => s[i] # s[j]

\* C1: for an acyclic dependency graph and any request, the build order of
\* the finalized launch map holds every requested task and every dependency
\* of it exactly once, each dependency at a strictly earlier index than the
\* tasks that depend on it.
C1_BuildOrderRespectsDeps ==
    (~CycleReachable /\ mainPc # "expand") =>
        /\ mainPc # "raised"
        /\ (finalized =>
              /\ NoDuplicates(build_order)
              /\ Range(build_order) = Wanted
              /\ \A t \in Wanted : \A d \in Descendants(t) :
                    IndexOf(d, build_order) < IndexOf(t, build_order))

C1_Witness ==
    /\ finalized
    /\ needs["package"] = <<"test", "build">>
    /\ needs["test"] = <<"build">>
    /\ to_sched = <<"test", "package">>
    /\ build_order = <<"build", "test", "package">>

\* the proxies of the launch map
Proxies == Range(build_order)

\* the body of q has been entered and has raised
BodyFailed(q) ==
    /\ q \in raises
    /\ \/ hdl[q].pc \in {"exit_run", "exit_exit"}
       \/ hdl[q].exc \in {"BodyError", "TypeError"}
       \/ aio_task[q].outcome \in {"BodyError", "TypeError"}

Min(a, b) == IF a < b THEN a ELSE b

\* C2: when no body raises and no cancellation is requested, every proxy
\* of the launch map has run its body exactly once and is Done when main
\* returns, the exception map is empty and the exit status is 0.
C2_AllRunWhenNoFailure ==
    (raises = {} /\ signals = 0 /\ mainPc = "returned") =>
        /\ \A p \in Proxies : run_future[p].state = "Done" /\ bodyRuns[p] = 1
        /\ exceptions = <<>>
        /\ ExitStatus(mainReturn) = 0

\* a proxy whose body was dispatched and whose completion the scheduler
\* has not yet detected
InFlight(p) ==
    \/ kind[p] = "sync" /\ hdl[p].pc # "none" /\ aio_task[p].pc \in {"poll", "hdl_wait"}
    \/ kind[p] = "async" /\ aio_task[p].pc = "body"

\* C3: at most max_workers proxies are in flight at any time, each of them
\* holds a slot of the semaphore, and no body is queued or executing on a
\* worker outside that span.
C3_BoundedDispatch ==
    LET n == Cardinality({ p \in Tasks : InFlight(p) }) IN
    /\ n <= max_workers
    /\ finalized => (semValue >= 0 /\ n <= max_workers - semValue)
    /\ \A p \in Tasks : hdl[p].pc \in {"queued", "body", "set_result", "exit_run",
                                        "exit_exit"}
                          => InFlight(p)

C3_Witness ==
    /\ max_workers = 2
    /\ Cardinality({ p \in Tasks : InFlight(p) }) = 2
    /\ semWaiters # <<>>
    /\ \E p \in Tasks : hdl[p].pc = "body"

\* C4: whenever a cycle is reachable from a requested task, the expansion
\* fails with CircularDependency and no task body runs.
C4_EveryCycleRaises ==
    (CycleReachable /\ mainPc # "expand") =>
        /\ mainPc = "raised"
        /\ exit_future = Failed("CircularDependency")
        /\ \A t \in Tasks : bodyRuns[t] = 0

\* C5: when a needs b, b needs a and a is requested, the expansion raises
\* CircularDependency naming a; no proxy is created and no body runs.
C5_MutualCycleNamesRequested ==
    \A a, b \in Tasks :
        (a # b /\ needs[a] = <<b>> /\ needs[b] = <<a>> /\ to_sched = <<a>>
            /\ mainPc # "expand") =>
            /\ mainPc = "raised"
            /\ mainReturn.kind = "raise"
            /\ exceptions = << [task |-> NoTask, etype |-> "CircularDependency",
                                eargs |-> a, tbk |-> "tb"] >>
            /\ exit_future = Failed("CircularDependency")
            /\ build_order = <<>>
            /\ \A t \in Tasks : aio_task[t].pc = "none" /\ hdl[t].pc = "none"
                                  /\ bodyRuns[t] = 0

C5_Witness ==
    /\ needs = MutualCycle
    /\ to_sched = <<"build">>
    /\ mainPc = "raised"
    /\ Len(exceptions) = 1

\* C6: build, test needing build, package needing test, package requested:
\* when the body of build fails, test and package end Cancelled and the
\* exit status is 2.
C6_ChainFailureCancelsDependents ==
    (needs = Chain /\ to_sched = <<"package">> /\ BodyFailed("build")
        /\ signals = 0 /\ mainPc = "returned") =>
        /\ run_future["test"].state = "Cancelled"
        /\ run_future["package"].state = "Cancelled"
        /\ ExitStatus(mainReturn) = 2

\* a proxy whose launch has not reached the dispatch of its body
Unlaunched(p) == aio_task[p].pc \in {"created", "sem_wait"}

\* a proxy that ended without its body ever having been dispatched
NeverLaunched(p) == bodyRuns[p] = 0 /\ hdl[p].pc = "none"

\* C7: without --continue, once the failure of a body has reached the exit
\* future, no proxy that is not yet launched starts its body, and when main
\* returns every proxy that was never launched is Cancelled.
C7_FailureHaltsUnlaunched ==
    [][ /\ (~continue_opt /\ signals = 0 /\ exit_future = Failed("BodyError")) =>
             \A p \in Tasks : Unlaunched(p) =>
                 /\ bodyRuns'[p] = 0
                 /\ aio_task'[p].pc \in {"created", "sem_wait", "finished"}
        /\ (~continue_opt /\ signals' = 0 /\ mainPc' = "returned"
              /\ \E q \in Tasks : BodyFailed(q)') =>
             \A p \in Proxies : NeverLaunched(p)' => run_future'[p].state = "Cancelled"
      ]_vars

\* C8: with --continue, when the body of q fails, a task that neither
\* depends on q nor is depended on by q runs its body and ends Done.
C8_ContinueRunsIndependent ==
    (continue_opt /\ signals = 0 /\ mainPc = "returned") =>
        \A q \in Proxies : BodyFailed(q) =>
            \A p \in Proxies :
                (p # q /\ p \notin raises /\ p \notin Descendants(q)
                    /\ q \notin Descendants(p)) =>
                    run_future[p].state = "Done" /\ bodyRuns[p] = 1

\* C9: a task body error fails the exit future if and only if --continue
\* is not given.
C9_EscalationFollowsContinue ==
    /\ exit_future = Failed("BodyError") => ~continue_opt
    /\ (~continue_opt /\ signals = 0 /\ mainPc = "returned"
          /\ \E q \in Tasks : BodyFailed(q)) => exit_future = Failed("BodyError")

\* C10: the exit status is 0 when the exception map is empty and the exit
\* future holds no error, and min(255, size + 1) otherwise.
C10_ExitCode ==
    mainPc = "returned" =>
        ExitStatus(mainReturn) =
            IF exceptions = <<>> /\ exit_future.state # "Failed"
            THEN 0
            ELSE Min(255, Len(exceptions) + 1)

\* C11: a cancellation is never recorded as an error: every entry of the
\* exception map that names a task is the error its body raised, and when
\* no body raises the exit status is 0, whatever was cancelled and wherever
\* the cancelled proxies were (waiting for the semaphore, polling, queued
\* on the executor).
C11_CancellationNotRecorded ==
    /\ \A i \in 1..Len(exceptions) :
         exceptions[i].task \in Tasks =>
            exceptions[i].etype \in {"BodyError", "TypeError"}
               /\ BodyFailed(exceptions[i].task)
    /\ (mainPc = "returned" /\ raises = {}) => ExitStatus(mainReturn) = 0

\* the step in which launch_task of a finds can_run false and calls
\* self.cancel(), with the cascade
CancelStep(a) ==
    /\ aio_task[a].pc = "created"
    /\ ~aio_task[a].must_cancel
    /\ aio_task'[a].pc = "finished"
    /\ aio_task'[a].outcome = "returned"
    /\ bodyRuns'[a] = bodyRuns[a]

CancelledAtLaunch(a) ==
    /\ aio_task[a].pc = "finished"
    /\ aio_task[a].outcome = "returned"
    /\ bodyRuns[a] = 0
    /\ hdl[a].pc = "none"

\* C13: cancel with the cascade on a proxy leaves its own run future
\* Cancelled, and every proxy that depends on it, directly or through other
\* tasks, has its run future Cancelled when main returns.
C13_CascadeIsTransitive ==
    \A a \in Proxies :
        CancelledAtLaunch(a) =>
            /\ run_future[a] = Cancelled
            /\ mainPc = "returned" =>
                 \A b \in Proxies : a \in Descendants(b) => run_future[b] = Cancelled

\* C14: main never ends by raising: for a body error, a circular dependency
\* found by the expansion or an error found while harvesting, main returns
\* a value, and a failure is visible in the exception map.
C14_DriverNeverRaises ==
    /\ mainPc # "raised"
    /\ mainReturn.kind # "raise"
    /\ (mainPc = "returned" /\ \E q \in Tasks : BodyFailed(q)) => exceptions # <<>>

\* the (task, kind, args) of a call or of an entry
Triple(c) == << c.task, c.etype, c.eargs >>

\* C15: after any sequence of recordings the exception map holds exactly
\* one entry for every distinct (task, kind, args) that was recorded: no
\* triple twice, no recorded triple missing, and each entry is the first
\* recording of its triple, traceback included.
C15_LedgerOneEntryPerTriple ==
    /\ \A i, j \in 1..Len(exceptions) :
         i # j => Triple(exceptions[i]) # Triple(exceptions[j])
    /\ { Triple(exceptions[i]) : i \in 1..Len(exceptions) }
         = { Triple(pushed[k]) : k \in 1..Len(pushed) }
    /\ \A i \in 1..Len(exceptions) :
         \E k \in 1..Len(pushed) :
            /\ pushed[k] = exceptions[i]
            /\ \A m \in 1..(k - 1) : Triple(pushed[m]) # Triple(pushed[k])

\* C16: when main returns, every task whose body raised has an entry in the
\* exception map with the kind and the args of the error it raised.
C16_BodyErrorRecorded ==
    mainPc = "returned" =>
        \A q \in Tasks :
            BodyFailed(q) =>
                \E i \in 1..Len(exceptions) :
                    /\ exceptions[i].task = q
                    /\ exceptions[i].etype = "BodyError"
                    /\ exceptions[i].eargs = body_args

\* C17: when main has returned it has written one error line for each
\* entry of the exception map, in order: "Task error: <name>" for an entry
\* with a task and "Error" for an entry without.
C17_OneLinePerEntry ==
    mainPc = "returned" =>
        /\ Len(stderr) = Len(exceptions)
        /\ \A i \in 1..Len(stderr) :
             /\ stderr[i].name = exceptions[i].task
             /\ stderr[i].head = IF exceptions[i].task \in Tasks
                                 THEN "Task error" ELSE "Error"

\* C18: with --dry-run and no cycle among the requested tasks and their
\* dependencies, main returns 0 after the expansion: the launch map stays
\* empty, no asyncio task and no executor call is created and no body runs.
C18_DryRunRunsNothing ==
    (dry_run /\ ~CycleReachable /\ mainPc # "expand") =>
        /\ mainPc = "returned"
        /\ mainReturn = [kind |-> "int", val |-> 0]
        /\ build_order = <<>> /\ ~finalized
        /\ amainPc = "none"
        /\ \A t \in Tasks : /\ bodyRuns[t] = 0
                            /\ aio_task[t].pc = "none"
                            /\ hdl[t].pc = "none"
                            /\ run_future[t] = Pending

C18_Witness ==
    /\ dry_run
    /\ needs = Chain /\ to_sched = <<"package">>
    /\ to_call = <<"build", "test", "package">>
    /\ mainPc = "returned"
    /\ ExitStatus(mainReturn) = 0

\* C19: for a proxy whose launch has not started, can_run is false when the
\* exit future is in any terminal state (Done, Cancelled, Failed) or some
\* proxy it depends on has a terminal run future, and true otherwise.
C19_CanRunOnTerminal ==
    \A p \in Proxies :
        aio_task[p].pc = "created" =>
            (can_run(World, p) <=>
                /\ ~done(exit_future)
                /\ \A d \in Range(depends[p]) : ~done(run_future[d]))

\* C20: no step starts a body, and no step passes the launch guard, for a
\* proxy whose run future or whose exit future is already terminal (Done,
\* Cancelled, Failed): neither the guard of launch_task on the loop nor the
\* guard of the callback on its worker thread.
C20_GuardRefusesTerminal ==
    [][ \A p \in Tasks :
          LET open == ~done(exit_future) /\ ~done(run_future[p]) IN
          /\ (hdl[p].pc = "queued" /\ hdl'[p].pc = "body") => open
          /\ (aio_task[p].pc = "created" /\ bodyRuns'[p] > bodyRuns[p]) => open
          /\ (aio_task[p].pc = "created"
                /\ aio_task'[p].pc \in {"sem_wait", "poll", "hdl_wait", "body"}) => open
      ]_vars

\* C21: an error raised while the launch guard records a failure (here the
\* TypeError of hash() inside push_exception_info) is swallowed: it is
\* neither the exception of the executor call nor the exception of the
\* asyncio task of the launch, and it adds no entry to the exception map.
C21_GuardIsFailureSafe ==
    /\ \A p \in Tasks : hdl[p].exc # "TypeError" /\ aio_task[p].outcome # "TypeError"
    /\ \A i \in 1..Len(exceptions) : exceptions[i].etype # "TypeError"

\* the parameter at index n (from 0) has a declared default: the defaults
\* belong to the last nr_defaults parameters
HasDefault(spec, n) == n >= Len(spec.funcargs) - spec.nr_defaults

\* the first rule of the documented order that matches the parameter
FirstMatch(spec, n) ==
    LET arg == spec.funcargs[n + 1] IN
    IF arg.in_opts THEN "opts"
    ELSE IF arg.in_env THEN "env"
    ELSE IF HasDefault(spec, n) THEN "default"
    ELSE IF arg.name \in {"env", "sh", "future"} THEN "reserved"
    ELSE "none"

\* C22: every argument comes from the first matching rule, in the order
\* option bucket, environment field, declared default, reserved name, and the
\* call fails only when a parameter matches no rule: a parameter with a
\* declared default never makes the call fail.
C22_ArgumentFromFirstRule ==
    use_args.pc # "none" =>
        /\ \A n \in 1..Len(use_args.use) : use_args.use[n] = FirstMatch(argspec, n - 1)
        /\ use_args.pc = "raised" =>
               FirstMatch(argspec, Len(use_args.use)) = "none"
        /\ use_args.pc = "returned" => Len(use_args.use) = Len(argspec.funcargs)

\* C23: the delivery of a signal cancels the exit future and the run future
\* of every proxy of the launch map that is still Pending; futures that are
\* already done keep their state, exception and result, and no future
\* outside the launch map is touched.
C23_SignalCancelsPending ==
    [][signals' # signals =>
          /\ exit_future' = cancel_future(exit_future)
          /\ \A p \in Proxies : run_future'[p] = cancel_future(run_future[p])
          /\ \A p \in Tasks \ Proxies : run_future'[p] = run_future[p]]_vars

\* a signal was delivered when one proxy had finished and another had not
C23_Witness ==
    /\ signals = 1
    /\ exit_future = Cancelled
    /\ \E p, q \in Proxies : /\ run_future[p] = Cancelled
                             /\ run_future[q].state = "Done"
                             /\ bodyRuns[p] = 0

\* C24: when main has returned or raised, every signal has the handler it
\* had before main; this covers the return after the run, an exception of
\* the run, and an exception raised while a later handler was being set.
C24_HandlersRestored ==
    mainPc \in {"returned", "raised"} =>
        \A s \in Range(Sigs) : sig_handler[s] = "previous"

\* C25: the event loop thread is never inside the blocking hdl.exception()
\* of a proxy whose body is still executing on its worker thread, so the
\* loop can always run the activities of the other proxies while a body
\* executes, also after the polling activity or its run future was cancelled.
C25_LoopNeverWaitsOnBody ==
    \A p \in Tasks : aio_task[p].pc = "hdl_wait" => hdl[p].pc # "body"

\* C26: once the proxies are created, for every proxy D and every task E
\* that D declares as a dependency, the dependency names of D contain E and
\* the reverse dependency names of E contain D, whether D was requested or
\* reached through another task.
C26_EdgesRecordedBothWays ==
    finalized =>
        \A D \in Proxies : \A E \in Range(needs[D]) :
            InSeq(E, depends[D]) /\ InSeq(D, rdepends[E])

\* C27: on a finalized map a call of create_task_proxy raises, a second
\* finalize returns False, and no call or mutation attempt changes the
\* build order, the name map or the finalized flag.
C27_FinalizedMapIsFrozen ==
    [][tlm.finalized =>
          /\ tlm'.build_order = tlm.build_order
          /\ tlm'.launch_map = tlm.launch_map
          /\ tlm'.finalized
          /\ tlm_ret'.op = "create_task_proxy" => tlm_ret'.ret = "BoundValue"
          /\ tlm_ret'.op = "finalize" => tlm_ret'.ret = "False"
          /\ tlm_ret'.op \in {"append", "setitem"} =>
                 tlm_ret'.ret \in {"AttributeError", "TypeError"}]_vars

\* create_task_proxy was refused on a finalized map that holds two proxies
C27_Witness ==
    /\ tlm.finalized
    /\ Len(tlm.build_order) = 2
    /\ tlm_ret.op = "create_task_proxy"
    /\ tlm_ret.ret = "BoundValue"

\* C28: in a finalized map no two proxies of the build order have the same
\* task name, and the build order is as long as the name map has keys,
\* whatever calls of create_task_proxy came before finalize.
C28_NoNameCollisions ==
    tlm.finalized =>
        /\ NoDuplicates(tlm.build_order)
        /\ Len(tlm.build_order) = Cardinality(tlm.launch_map)

\* C29: when amain ends its harvest, an exit future that is still Pending
\* gets the number of entries of the exception map as its result, and an
\* exit future that is already failed or cancelled is left as it is.
C29_ExitResultIsLedgerSize ==
    [][(amainPc = "harvest" /\ amainPc' = "done") =>
          /\ exit_future = Pending => exit_future' = Finished(Len(exceptions))
          /\ exit_future # Pending => exit_future' = exit_future]_vars

\* amain has ended after a run of task bodies and has given the exit future
\* its result
C29_Witness ==
    /\ amainPc = "done"
    /\ mainPc = "tail"
    /\ exit_future.state = "Done"
    /\ exit_future.val = Len(exceptions)
    /\ \E p \in Proxies : bodyRuns[p] > 0

\* C30: when the future is already cancelled at the moment call_sync enters
\* its context, the callback is never called, call_sync makes no further
\* call on the future, raises nothing, and the future stays cancelled.
C30_CancelledFutureSkipsCall ==
    call_st.entered_cancelled =>
        /\ call_st.calls = 0
        /\ call_st.touches = 0
        /\ call_st.leaves = "none"
        /\ call_st.future = Cancelled

\* call_sync has returned from a call whose future was cancelled at entry,
\* by the other holder of the future or before the call
C30_Witness ==
    /\ call_st.entered_cancelled
    /\ call_st.pc = "done"
    /\ call_st.other = "done"

\* C31: a call of call_sync on a future that is pending when the context is
\* entered and that nobody else cancels calls the callback exactly once,
\* raises nothing to its caller, and leaves the future done with the value
\* returned by the callback or with the exception the callback raised.
C31_CallRecordedInFuture ==
    (/\ call_st.pc = "done"
     /\ ~call_st.entered_cancelled
     /\ call_st.other \in {"idle", "locked"}) =>
        /\ call_st.calls = 1
        /\ call_st.leaves = "none"
        /\ call_st.future = IF call_in.callback = "returns" THEN Finished(0)
                            ELSE Failed(Raised(call_in.callback))

\* C32: after any sequence of set, get, delete and membership operations on
\* string keys the Demap agrees with a dict given the same operations: the
\* last operation gave the same answer, both have the same length, and every
\* key is a member of both or of neither, with the same value.
C32_DemapRefinesDict ==
    /\ demap_ret.ret = demap_ret.ref
    /\ Len(demap) = Cardinality({ k \in DemapKeys : ref_contains(refmap, k) })
    /\ \A k \in DemapKeys :
          /\ demap_contains(demap, k) <=> ref_contains(refmap, k)
          /\ demap_getitem(demap, k) = ref_getitem(refmap, k)

\* C33: every run of main comes to its end: main returns or raises, so the
\* run future of every proxy becomes done and the harvest loop of amain ends.
C33_RunTerminates == <>(mainPc \in {"returned", "raised"})

\* the body of p is executing, on a worker thread or as a coroutine
BodyExecuting(p) == hdl[p].pc = "body" \/ aio_task[p].pc = "body"

\* C34: while the body of a task executes, the run future of every task it
\* depends on, directly or through other tasks, is done: no body starts
\* while a dependency is still Pending.
C34_BodyAfterDependencies ==
    \A p \in Proxies : BodyExecuting(p) =>
        \A d \in Descendants(p) : done(run_future[d])

\* C35: a run future or the exit future that is done keeps its state and
\* value in every step, and no set_result or set_exception is attempted on
\* a future that is already done: no InvalidStateError arises on a worker
\* thread.
C35_FuturesSetOnce ==
    [][ /\ \A p \in Tasks : done(run_future[p]) => run_future'[p] = run_future[p]
        /\ done(exit_future) => exit_future' = exit_future
        /\ \A p \in Tasks : hdl'[p].exc # "InvalidStateError" ]_vars

\* C36: when no call of push_exception_info is in progress on either
\* thread, the exception map holds an entry for every distinct (task, kind,
\* args) that was recorded, the first recordings of the run included.
C36_NoRecordLost ==
    (\A t \in Threads : push_st.thr[t].pc = "idle") =>
        \A k \in 1..Len(pushed) :
            \E i \in 1..Len(exceptions) : Triple(exceptions[i]) = Triple(pushed[k])

\* the proxies that declare a as one of their dependencies
ReverseDependents(a) == { b \in Proxies : InSeq(a, needs[b]) }

\* C37: the step in which launch_task finds can_run false leaves the proxy's
\* own run future Cancelled and the run future of every proxy that declares
\* it as a dependency Cancelled, takes no slot of the semaphore, submits and
\* enters no body, ends the activity, and records nothing.
C37_RefusedProxyCancels ==
    [][ \A a \in Tasks :
          CancelStep(a) =>
            /\ run_future'[a] = Cancelled
            /\ \A b \in ReverseDependents(a) : run_future'[b] = Cancelled
            /\ semValue' = semValue /\ semWaiters' = semWaiters
            /\ hdl'[a].pc = "none" /\ bodyRuns' = bodyRuns
            /\ exceptions' = exceptions /\ pushed' = pushed ]_vars

\* C38: the step in which a coroutine task function is cancelled where it
\* is suspended ends launch_task with a return: nothing is recorded, the
\* exit future and every run future are left as they are, and the slot of
\* the semaphore is given back.
C38_CancelledBodyExitsQuietly ==
    [][ \A p \in Tasks :
          (aio_task[p].pc = "body" /\ aio_task[p].must_cancel
             /\ aio_task'[p].pc = "finished") =>
            /\ aio_task'[p].outcome = "returned"
            /\ exceptions' = exceptions /\ pushed' = pushed
            /\ exit_future' = exit_future
            /\ run_future' = run_future
            /\ semValue' = semValue + 1 ]_vars

C38_Witness ==
    \E p \in Proxies :
        /\ kind[p] = "async" /\ bodyRuns[p] = 1 /\ p \notin raises
        /\ aio_task[p].pc = "finished" /\ aio_task[p].outcome = "returned"
        /\ run_future[p] = Pending
        /\ done(exit_future)
        /\ semValue = max_workers

\* C39: a round of amain's finalizing loop looks at the asyncio task of a
\* proxy only when the proxy's run future is done and the task has ended;
\* when the task holds an exception, push_exception_info is called with
\* the proxy's task and that exception and the map holds an entry for
\* them after the round; the round goes on to the next proxy, and when
\* amain has returned every exception held by a task has its entry.
C39_ResidualErrorsHarvested ==
    [][ /\ (amainPc = "harvest" /\ harvestIdx' = harvestIdx + 1) =>
             LET p == build_order[harvestIdx]
                 exc == aio_task[p].outcome
             IN /\ done(run_future[p])
                /\ aio_task[p].pc = "finished"
                /\ amainPc' = "harvest" /\ mainPc' = mainPc
                /\ exc \notin {"returned", "cancelled"} =>
                     /\ pushed' = Append(pushed, Call(p, exc, ErrArgs(exc), "stack"))
                     /\ \E i \in 1..Len(exceptions') :
                          exceptions'[i].task = p /\ exceptions'[i].etype = exc
        /\ amainPc' = "done" =>
             \A p \in Proxies :
                 aio_task'[p].outcome \notin {"returned", "cancelled"} =>
                     \E i \in 1..Len(exceptions') :
                         /\ exceptions'[i].task = p
                         /\ exceptions'[i].etype = aio_task'[p].outcome
      ]_vars

C39_Witness ==
    /\ amainPc = "done"
    /\ \E p \in Proxies :
         /\ aio_task[p].outcome = "TypeError"
         /\ \E i \in 1..Len(exceptions) :
              /\ exceptions[i].task = p /\ exceptions[i].etype = "TypeError"
              /\ exceptions[i].tbk = "stack"

\* some activity of the run exists: amain has spawned, or a launch or a
\* body has been entered
RunStarted ==
    \/ amainPc # "none"
    \/ \E p \in Tasks : aio_task[p].pc # "none" \/ hdl[p].pc # "none" \/ bodyRuns[p] > 0

\* C40: whenever amain has spawned an activity, or any launch or body has
\* been entered, the launch map is finalized and holds a proxy for every
\* task of the build list; and once the map is finalized its build order
\* and the dependency names of its proxies never change.
C40_FinalizedBeforeLaunch ==
    [][ /\ RunStarted' => (finalized' /\ Range(build_order') = Range(to_call'))
        /\ finalized => (finalized' /\ build_order' = build_order
                           /\ depends' = depends /\ rdepends' = rdepends) ]_vars

C40_Witness ==
    /\ finalized /\ Len(build_order) >= 2
    /\ amainPc = "gather"
    /\ \E p \in Proxies : bodyRuns[p] > 0 /\ BodyExecuting(p)
    /\ \E q \in Proxies : aio_task[q].pc = "created"

====
